---- MODULE Spec2Model ----
(***************************************************************************)
(* A model of the Zendesk client of src/zendesk/__init__.py: the transport *)
(* (request with its rate-limit retry and error policy), the lazily        *)
(* populated field cache with its three lookup views, format_task_data and *)
(* get_users.                                                              *)
(*                                                                         *)
(* Python values are encoded as follows.  A dict is a sequence of          *)
(* [k, v] records in insertion order with distinct keys.  Dict keys and    *)
(* field ids are strings: "1" and "2" stand for the integers 1 and 2, the  *)
(* other strings for themselves, so int keys and str keys never compare    *)
(* equal.  None is a distinguished value of each type (NoneStr, NoneFd).   *)
(* A url is a sequence of text pieces; url.startswith("http") looks at the *)
(* first piece.  A header value is a sequence of decimal digits.           *)
(***************************************************************************)
EXTENDS Integers, Sequences, FiniteSets, TLC

VARIABLES
    auto_retry_arg,         \* the auto_retry argument given to __init__
    auto_retry,             \* self.auto_retry
    endpoint,               \* self.endpoint
    timeout,                \* self.timeout
    field_mapping,          \* self.field_mapping, a dict id -> alias
    ignore_missing_fields,  \* self.ignore_missing_fields
    has_id_fields,          \* hasattr(self, '_id_fields')
    _id_fields,             \* self._id_fields, a dict id -> entry
    populations,            \* how many times self._id_fields has been assigned
    call,                   \* the last operation called on the client, with its inputs
    events,                 \* what that operation did on the wire: sends and sleeps, in order
    result,                 \* its outcome: the value returned or the error raised
    threads                 \* concurrent callers: each one's position in id_fields

vars == <<auto_retry_arg, auto_retry, endpoint, timeout, field_mapping,
          ignore_missing_fields, has_id_fields, _id_fields, populations,
          call, events, result, threads>>

client == <<auto_retry_arg, auto_retry, endpoint, timeout, field_mapping,
            ignore_missing_fields>>

cache == <<has_id_fields, _id_fields, populations>>

(***************************************************************************)
(* Bounds of the model.                                                    *)
(***************************************************************************)
MaxRetries == 2     \* longest run of consecutive 429 answers
MaxPairs == 2       \* most entries in a payload's `fields` mapping

DefaultTimeout == 30

(***************************************************************************)
(* Python dicts.                                                           *)
(***************************************************************************)
RECURSIVE DictIndex(_, _)
DictIndex(d, k) ==
    IF d = <<>> THEN 0
    ELSE IF d[Len(d)].k = k THEN Len(d)
    ELSE DictIndex(SubSeq(d, 1, Len(d) - 1), k)

DictHas(d, k) == DictIndex(d, k) # 0

\* d.get(k, default)
DictGet(d, k, default) == IF DictHas(d, k) THEN d[DictIndex(d, k)].v ELSE default

\* d[k] = v: a new key goes last, an existing key keeps its place
DictSet(d, k, v) ==
    IF DictHas(d, k) THEN [d EXCEPT ![DictIndex(d, k)] = [k |-> k, v |-> v]]
    ELSE Append(d, [k |-> k, v |-> v])

\* dict(pairs): the pairs inserted in order
RECURSIVE DictOf(_)
DictOf(pairs) ==
    IF pairs = <<>> THEN <<>>
    ELSE LET p == pairs[Len(pairs)]
         IN DictSet(DictOf(SubSeq(pairs, 1, Len(pairs) - 1)), p.k, p.v)

\* d.values(), in iteration order
DictValues(d) == [i \in 1..Len(d) |-> d[i].v]

SeqsUpTo(S, n) == UNION {[1..m -> S] : m \in 0..n}

Range(s) == {s[i] : i \in 1..Len(s)}

Last(s) == s[Len(s)]

\* the element of a one-element set
Only(S) == CHOOSE x \in S : TRUE

(***************************************************************************)
(* Values the server delivers.                                             *)
(***************************************************************************)
NoneStr == "None"

\* one element of the `ticket_fields` array: `present` holds the keys of the
\* element besides id and title
FieldEntry(id, title, present, values) ==
    [id |-> id, title |-> title, present |-> present,
     options |-> IF "options" \in present THEN values ELSE {},
     custom_field_options |-> IF "custom_field_options" \in present THEN values ELSE {}]

NoneFd == FieldEntry(NoneStr, NoneStr, {}, {})

\* a drop-down field as the service delivers it, with its option list
Dropdown == FieldEntry("1", "a", {"custom_field_options"}, {"x"})

\* a field delivered with an `options` key
Optioned == FieldEntry("2", "b", {"options"}, {"x"})

Plain == FieldEntry("2", "b", {}, {})

\* a second field with the title of Dropdown
SameTitle == FieldEntry("2", "a", {}, {})

\* a field whose title is the integer 2, the id of another field
TitleIsId == FieldEntry("1", "2", {}, {})

\* a later version of field 1
Renamed == FieldEntry("1", "c", {}, {})

\* an element whose id is the string 'custom_field_options'
OddId == FieldEntry("custom_field_options", "b", {}, {})

\* the `ticket_fields` arrays the server delivers
Listings ==
    { <<>>, <<Dropdown>>, <<Dropdown, Optioned>>, <<Plain, Dropdown>>,
      <<Dropdown, SameTitle>>, <<TitleIsId, Optioned>>, <<Dropdown, Renamed>>,
      <<Dropdown, OddId>> }

\* a JSON object: its keys, and the values of the keys the client reads
JsonObject(keys, users, ticket_fields) ==
    [keys |-> keys, users |-> users, ticket_fields |-> ticket_fields]

\* a response body: its text, whether the text is JSON, and the JSON value
Content(raw, valid, value) == [raw |-> raw, valid |-> valid, value |-> value]

EmptyObject == JsonObject({}, <<>>, <<>>)

HtmlContent == Content("<html>", FALSE, EmptyObject)

UsersContent == Content("users", TRUE, JsonObject({"users"}, <<"u1", "u2">>, <<>>))

ListingContent(l) == Content("ticket_fields", TRUE, JsonObject({"ticket_fields"}, <<>>, l))

Response(status_code, retry_after, content) ==
    [status_code |-> status_code, retry_after |-> retry_after, content |-> content]

RetryAfters == {<<2>>, <<1, 0>>}

RateLimited == {Response(429, ra, HtmlContent) : ra \in RetryAfters}

FinalStatuses == {200, 399, 400, 500}

\* what the server answers to one call: up to MaxRetries 429 answers, then one
\* answer that is not a 429
Answers(contents) ==
    {pre \o <<Response(st, <<>>, c)>> :
        pre \in SeqsUpTo(RateLimited, MaxRetries), st \in FinalStatuses, c \in contents}

(***************************************************************************)
(* The transport: Zendesk.request.                                         *)
(***************************************************************************)

\* the pieces a url can begin with for which url.startswith("http") is true
HttpPieces == {"https://", "http://"}

StartsWithHttp(url) == url # <<>> /\ Head(url) \in HttpPieces

\* endpoint.format(subdomain=subdomain)
RECURSIVE FormatEndpoint(_, _)
FormatEndpoint(template, subdomain) ==
    IF template = <<>> THEN <<>>
    ELSE <<IF Head(template) = "{subdomain}" THEN subdomain ELSE Head(template)>>
         \o FormatEndpoint(Tail(template), subdomain)

DefaultEndpoint == <<"https://", "{subdomain}", ".zendesk.com/api/v2">>

\* int(s) of a string of decimal digits
RECURSIVE IntOf(_)
IntOf(digits) ==
    IF digits = <<>> THEN 0
    ELSE 10 * IntOf(SubSeq(digits, 1, Len(digits) - 1)) + digits[Len(digits)]

\* json.loads(content): the parsed value, or a failure
JsonLoads(content) ==
    IF content.valid THEN [ok |-> TRUE, value |-> content.value]
    ELSE [ok |-> FALSE, value |-> content.value]

NoRequest == [method |-> NoneStr, url |-> <<>>, kwargs |-> <<>>, timeout |-> 0]

SendEvent(method, url, kwargs, tmo) ==
    [kind |-> "send", secs |-> 0,
     req |-> [method |-> method, url |-> url, kwargs |-> kwargs, timeout |-> tmo]]

SleepEvent(secs) == [kind |-> "sleep", secs |-> secs, req |-> NoRequest]

\* raise ZendeskError(..., response=ret, method=method, url=url, args=args, kwargs=kwargs)
ZendeskError(method, url, ret, kwargs) ==
    [kind |-> "ZendeskError", method |-> method, url |-> url,
     status_code |-> ret.status_code, text |-> ret.content, kwargs |-> kwargs,
     json_none |-> TRUE, json |-> ret.content.value]

\* return ret, with ret.json set
Returned(ret, json_none, json) ==
    [kind |-> "return", method |-> NoneStr, url |-> <<>>,
     status_code |-> ret.status_code, text |-> ret.content, kwargs |-> <<>>,
     json_none |-> json_none, json |-> json]

RetryCond(retry, ret) == retry /\ ret.status_code = 429

FailStatusStrict(status_code) == status_code > 400

FailStatus(status_code) == status_code >= 400

ResolveAlways(ep, url) == ep \o url

\* if not url.startswith("http"): url = self.endpoint + url
Resolve(ep, url) == IF ~StartsWithHttp(url) THEN ep \o url ELSE url

\* request(method, url, **kwargs) when the server answers the successive HTTP
\* requests with resps[1], resps[2], ...
RECURSIVE request(_, _, _, _)
request(method, url, kwargs, resps) ==
    LET url1 == Resolve(endpoint, url)
        ret == Head(resps)
        sent == SendEvent(method, url1, kwargs, timeout)
    IN  IF RetryCond(auto_retry, ret)
        THEN LET retry_after == IntOf(ret.retry_after)
             IN  Only({ [events |-> <<sent, SleepEvent(retry_after)>> \o again.events,
                         outcome |-> again.outcome] :
                        again \in {request(method, url1, kwargs, Tail(resps))} })
        ELSE IF FailStatus(ret.status_code)
        THEN [events |-> <<sent>>, outcome |-> ZendeskError(method, url1, ret, kwargs)]
        ELSE LET parsed == JsonLoads(ret.content)
             IN  [events |-> <<sent>>,
                  outcome |-> Returned(ret, ~parsed.ok, parsed.value)]

\* get(url, **kwargs)
get(url, kwargs, resps) == request("GET", url, kwargs, resps)

(***************************************************************************)
(* Resource operations.                                                    *)
(***************************************************************************)
Truthy(v) == v # NoneStr /\ v # ""

Raised(kind, error) == [kind |-> kind, users |-> <<>>, error |-> error]

NoError == Returned(Response(0, <<>>, HtmlContent), TRUE, EmptyObject)

GuardBoth(email, external_id) == Truthy(email) # Truthy(external_id)

\* assert email or external_id
GetUsersGuard(email, external_id) == Truthy(email) \/ Truthy(external_id)

\* get_users(email, external_id)
get_users(email, external_id, resps) ==
    IF ~GetUsersGuard(email, external_id)
    THEN [events |-> <<>>, outcome |-> Raised("AssertionError", NoError)]
    ELSE LET params == IF Truthy(email) THEN <<[k |-> "query", v |-> email]>>
                       ELSE <<[k |-> "external_id", v |-> external_id]>>
         IN  Only({
               LET ret == r.outcome
               IN  [events |-> r.events,
                    outcome |->
                      IF ret.kind # "return" THEN Raised(ret.kind, ret)
                      ELSE IF ret.json_none THEN Raised("TypeError", NoError)
                      ELSE IF "users" \notin ret.json.keys THEN Raised("KeyError", NoError)
                      ELSE [kind |-> "return", users |-> ret.json.users, error |-> NoError]] :
               r \in {get(<<"/users.json">>, <<[k |-> "params", v |-> params]>>, resps)} })

(***************************************************************************)
(* The field registry.  `self` is the cache part of the client,            *)
(* [has, fields, n]: whether _id_fields is set, its value, and how often   *)
(* it has been assigned.  `supply` holds, for each get the operation is    *)
(* yet to make, the server's answers to it.  An operation yields the       *)
(* client after it, the supply left, the events on the wire, and its value *)
(* or the error it raised.                                                 *)
(***************************************************************************)
Ok(self, supply, evs, value) ==
    [self |-> self, supply |-> supply, events |-> evs, raised |-> FALSE,
     error |-> "", value |-> value]

Raise(self, supply, evs, error, value) ==
    [self |-> self, supply |-> supply, events |-> evs, raised |-> TRUE,
     error |-> error, value |-> value]

\* _get_fields()
_get_fields(answers) ==
    Only({
      LET ret == r.outcome
          listing == ret.json.ticket_fields
          fields == DictOf([i \in 1..Len(listing) |-> [k |-> listing[i].id, v |-> listing[i]]])
      IN  IF ret.kind # "return" THEN [events |-> r.events, error |-> ret.kind, fields |-> <<>>]
          ELSE IF ret.json_none THEN [events |-> r.events, error |-> "TypeError", fields |-> <<>>]
          ELSE IF "ticket_fields" \notin ret.json.keys
          THEN [events |-> r.events, error |-> "KeyError", fields |-> <<>>]
          ELSE IF DictHas(fields, "custom_field_options")
          \* o['value'] for o in an element: o is one of the element's keys, a string
          THEN [events |-> r.events, error |-> "TypeError", fields |-> <<>>]
          ELSE [events |-> r.events, error |-> "", fields |-> fields] :
      r \in {get(<<"/ticket_fields.json">>, <<>>, answers)} })

NeedsFetchAlways(self) == TRUE

\* not hasattr(self, '_id_fields')
NeedsFetch(self) == ~self.has

\* the listing the server goes on answering once the answers in store are spent
StandingAnswer == <<Response(200, <<>>, ListingContent(<<Renamed>>))>>

\* the server's answers to the next get of the listing, and the store left
NextAnswer(supply) == IF supply = <<>> THEN StandingAnswer ELSE Head(supply)

Rest(supply) == IF supply = <<>> THEN <<>> ELSE Tail(supply)

\* the id_fields property
id_fields(self, supply) ==
    IF NeedsFetch(self)
    THEN Only({ IF g.error # "" THEN Raise(self, Rest(supply), g.events, g.error, <<>>)
                ELSE Ok([has |-> TRUE, fields |-> g.fields, n |-> self.n + 1],
                        Rest(supply), g.events, g.fields) :
                g \in {_get_fields(NextAnswer(supply))} })
    ELSE Ok(self, supply, <<>>, self.fields)

\* the fields property:
\* dict((self.field_mapping.get(v['id'], v['title']), v) for v in self.id_fields.values())
fields(self, supply) ==
    Only({
      LET vs == DictValues(a.value)
      IN  IF a.raised THEN a
          ELSE [a EXCEPT !.value =
                  DictOf([i \in 1..Len(vs) |->
                            [k |-> DictGet(field_mapping, vs[i].id, vs[i].title), v |-> vs[i]]])] :
      a \in {id_fields(self, supply)} })

\* the title_fields property: dict((v['title'], v) for v in self.id_fields.values())
title_fields(self, supply) ==
    Only({
      LET vs == DictValues(a.value)
      IN  IF a.raised THEN a
          ELSE [a EXCEPT !.value =
                  DictOf([i \in 1..Len(vs) |-> [k |-> vs[i].title, v |-> vs[i]]])] :
      a \in {id_fields(self, supply)} })

\* `not fd` of a field entry or None: an entry is a dict with keys, hence true
Not(fd) == fd = NoneFd

get_field_IdFirst(self, k, supply) ==
    Only({
      IF a.raised THEN [a EXCEPT !.value = NoneFd]
      ELSE IF ~Not(DictGet(a.value, k, NoneFd)) THEN [a EXCEPT !.value = DictGet(a.value, k, NoneFd)]
      ELSE Only({
        IF b.raised THEN [b EXCEPT !.events = a.events \o @, !.value = NoneFd]
        ELSE IF ~Not(DictGet(b.value, k, NoneFd))
        THEN [b EXCEPT !.events = a.events \o @, !.value = DictGet(b.value, k, NoneFd)]
        ELSE Only({
          [c EXCEPT !.events = a.events \o b.events \o @,
                    !.value = IF c.raised THEN NoneFd ELSE DictGet(c.value, k, NoneFd)] :
          c \in {title_fields(b.self, b.supply)} }) :
        b \in {fields(a.self, a.supply)} }) :
      a \in {id_fields(self, supply)} })

\* get_field(k)
get_field(self, k, supply) ==
    Only({
      IF a.raised THEN [a EXCEPT !.value = NoneFd]
      ELSE IF ~Not(DictGet(a.value, k, NoneFd)) THEN [a EXCEPT !.value = DictGet(a.value, k, NoneFd)]
      ELSE Only({
        IF b.raised THEN [b EXCEPT !.events = a.events \o @, !.value = NoneFd]
        ELSE IF ~Not(DictGet(b.value, k, NoneFd))
        THEN [b EXCEPT !.events = a.events \o @, !.value = DictGet(b.value, k, NoneFd)]
        ELSE Only({
          [c EXCEPT !.events = a.events \o b.events \o @,
                    !.value = IF c.raised THEN NoneFd ELSE DictGet(c.value, k, NoneFd)] :
          c \in {title_fields(b.self, b.supply)} }) :
        b \in {id_fields(a.self, a.supply)} }) :
      a \in {fields(self, supply)} })

(***************************************************************************)
(* The ticket data formatter.  A payload is [present, comment, fields,     *)
(* custom_fields, subject]: the keys it has and the value of each of the   *)
(* four keys (a default for a key it lacks).                               *)
(***************************************************************************)
TextComment(text) == [is_dict |-> FALSE, text |-> text, body |-> "", public |-> FALSE]

DictComment(body, public) == [is_dict |-> TRUE, text |-> "", body |-> body, public |-> public]

\* data['comment'] if isinstance(data['comment'], dict) else {'body': data['comment'], 'public': False}
NormalComment(comment) ==
    IF comment.is_dict THEN comment ELSE DictComment(comment.text, FALSE)

Formatted(data) == [kind |-> "return", message |-> "", key |-> NoneStr, data |-> data]

Failed(kind, message, key, data) ==
    [kind |-> kind, message |-> message, key |-> key, data |-> data]

\* ('options' not in fd) or (v in fd['options'])
OptionsOk(fd, v) == ("options" \notin fd.present) \/ (v \in fd.options)

SkipMissingAlways(fd, ignore) == fd = NoneFd

\* fd is None and self.ignore_missing_fields
SkipMissing(fd, ignore) == fd = NoneFd /\ ignore

CustomFieldByKey(k, fd, v) == [id |-> k, value |-> v]

\* {'id': fd['id'], 'value': v}
CustomField(k, fd, v) == [id |-> fd.id, value |-> v]

\* the loop of format_task_data over fields.keys(), from the i-th key on
RECURSIVE FormatFields(_, _, _, _, _, _)
FormatFields(self, data, flds, i, supply, evs) ==
    IF i > Len(flds) THEN [self |-> self, events |-> evs, outcome |-> Formatted(data)]
    ELSE Only({
           LET k == flds[i].k
               fd == g.value
               v == flds[i].v
               evs1 == evs \o g.events
           IN  IF g.raised
               THEN [self |-> g.self, events |-> evs1,
                     outcome |-> Failed(g.error, "", NoneStr, data)]
               ELSE IF SkipMissing(fd, ignore_missing_fields)
               THEN FormatFields(g.self, data, flds, i + 1, g.supply, evs1)
               ELSE IF fd = NoneFd
               THEN [self |-> g.self, events |-> evs1,
                     outcome |-> Failed("AssertionError", "No match for field", k, data)]
               ELSE IF ~OptionsOk(fd, v)
               THEN [self |-> g.self, events |-> evs1,
                     outcome |-> Failed("AssertionError", "", NoneStr, data)]
               ELSE FormatFields(g.self,
                                 [data EXCEPT !.custom_fields = Append(@, CustomField(k, fd, v))],
                                 flds, i + 1, g.supply, evs1) :
           g \in {get_field(self, flds[i].k, supply)} })

\* the `comment` part of format_task_data
FormatComment(data) ==
    IF "comment" \in data.present
    THEN [data EXCEPT !.comment = NormalComment(data.comment)]
    ELSE data

\* format_task_data(data)
format_task_data(self, data, supply) ==
    LET data1 == FormatComment(data)
        data2 == [data1 EXCEPT !.present = (@ \cup {"custom_fields"}) \ {"fields"},
                               !.custom_fields = <<>>,
                               !.fields = <<>>]
    IN  IF "fields" \in data1.present
        THEN FormatFields(self, data2, data1.fields, 1, supply, <<>>)
        ELSE [self |-> self, events |-> <<>>, outcome |-> Formatted(data1)]

(***************************************************************************)
(* The client and its operations as a state machine.                       *)
(***************************************************************************)
EndpointTemplates == {DefaultEndpoint, <<"http://", "proxy.local/", "{subdomain}">>}

FieldMappings ==
    { <<>>, <<[k |-> "1", v |-> "b"]>>, <<[k |-> "1", v |-> "2"]>> }

\* Zendesk.__init__(subdomain, auth, field_mapping, endpoint, auto_retry, timeout)
ZendeskInit(subdomain, mapping, template, retry, tmo) ==
    /\ endpoint = FormatEndpoint(template, subdomain)
    /\ field_mapping = mapping
    /\ auto_retry_arg = retry
    /\ auto_retry = TRUE
    /\ timeout = tmo
    /\ ignore_missing_fields = FALSE
    /\ has_id_fields = FALSE
    /\ _id_fields = <<>>
    /\ populations = 0

NoCall == [op |-> "none"]

NoResult == [kind |-> "none"]

Idle ==
    /\ call = NoCall
    /\ events = <<>>
    /\ result = NoResult

\* the single caller is between two calls
CallerReady == call = NoCall

\* the caller takes the outcome of its call and is ready for the next one
Return ==
    /\ call # NoCall
    /\ call' = NoCall
    /\ events' = <<>>
    /\ result' = NoResult
    /\ UNCHANGED <<client, cache, threads>>

InitTransport ==
    /\ \E template \in EndpointTemplates, retry \in BOOLEAN, tmo \in {DefaultTimeout, 5} :
            ZendeskInit("acme", <<>>, template, retry, tmo)
    /\ Idle
    /\ threads = <<>>

Methods == {"GET", "POST"}

Urls == { <<"/search.json">>, <<"https://", "other.example/x.json">> }

Kwargs == { <<>>, <<[k |-> "params", v |-> <<[k |-> "query", v |-> "q"]>>]>> }

TransportContents == {HtmlContent, UsersContent, Content("{}", TRUE, EmptyObject)}

\* a caller calls request(method, url, **kwargs)
Request ==
    /\ CallerReady
    /\ \E method \in Methods, url \in Urls, kwargs \in Kwargs,
       resps \in Answers(TransportContents) :
        \E r \in {request(method, url, kwargs, resps)} :
            /\ call' = [op |-> "request", method |-> method, url |-> url,
                        kwargs |-> kwargs, resps |-> resps]
            /\ events' = r.events
            /\ result' = r.outcome
            /\ UNCHANGED <<client, cache, threads>>

Emails == {NoneStr, "", "e1"}

ExternalIds == {NoneStr, "x9"}

\* a caller calls get_users(email, external_id)
GetUsers ==
    /\ CallerReady
    /\ \E email \in Emails, external_id \in ExternalIds,
       resps \in Answers(TransportContents) :
        \E r \in {get_users(email, external_id, resps)} :
            /\ call' = [op |-> "get_users", email |-> email,
                        external_id |-> external_id, resps |-> resps]
            /\ events' = r.events
            /\ result' = r.outcome
            /\ UNCHANGED <<client, cache, threads>>

NextTransport == Request \/ GetUsers \/ Return

SpecTransport == InitTransport /\ [][NextTransport]_vars

(***************************************************************************)
(* The field registry and the formatter, called by a single caller.        *)
(***************************************************************************)
Self == [has |-> has_id_fields, fields |-> _id_fields, n |-> populations]

FieldContents ==
    {ListingContent(l) : l \in Listings} \cup {HtmlContent, Content("{}", TRUE, EmptyObject)}

\* the server's answers to one get of the field listing
FieldAnswers ==
    {pre \o <<Response(st, <<>>, c)>> :
        pre \in {<<>>, <<Response(429, <<2>>, HtmlContent)>>}, st \in {200}, c \in FieldContents}
    \cup {<<Response(500, <<>>, HtmlContent)>>}

\* the answers in store for an operation: any, while the cache is unset; once
\* it is set one store stands for all, as an operation that finds the cache
\* set asks the server nothing
Supplies ==
    IF has_id_fields THEN {<<StandingAnswer>>}
    ELSE {<<a>> : a \in FieldAnswers}

Keys == {"a", "b", "2", "zz"}

Values == {"x", "y"}

\* the (key, value) pairs of a `fields` mapping, its keys distinct
FieldsDicts ==
    {d \in SeqsUpTo([k : Keys, v : Values], MaxPairs) :
        \A i, j \in 1..Len(d) : d[i].k = d[j].k => i = j}

NoComment == TextComment(NoneStr)

Payload(present, comment, flds, custom_fields) ==
    [present |-> present \cup {"subject"}, comment |-> comment, fields |-> flds,
     custom_fields |-> custom_fields, subject |-> "s"]

Payloads ==
    {Payload({}, NoComment, <<>>, <<>>), Payload({"comment"}, TextComment("hi"), <<>>, <<>>)}
    \cup {Payload({"fields"}, NoComment, d, <<>>) : d \in FieldsDicts}
    \cup {Payload({"fields", "comment"}, TextComment("hi"), d, <<>>) : d \in FieldsDicts}
    \cup {Payload({"fields", "comment", "custom_fields"}, DictComment("hi", TRUE), d,
                  <<[id |-> "9", value |-> "old"]>>) : d \in FieldsDicts}

InitFields ==
    /\ \E mapping \in FieldMappings :
            ZendeskInit("acme", mapping, DefaultEndpoint, TRUE, DefaultTimeout)
    /\ Idle
    /\ threads = <<>>

\* the answers of the supply that the operation used
Used(supply, left) == SubSeq(supply, 1, Len(supply) - Len(left))

Store(self) ==
    /\ has_id_fields' = self.has
    /\ _id_fields' = self.fields
    /\ populations' = self.n

\* the caller sets client.ignore_missing_fields
SetIgnoreMissingFields ==
    /\ CallerReady
    /\ ignore_missing_fields' = ~ignore_missing_fields
    /\ UNCHANGED <<auto_retry_arg, auto_retry, endpoint, timeout, field_mapping,
                   cache, call, events, result, threads>>

\* the caller reads one of the properties fields, id_fields, title_fields
ReadView ==
    /\ CallerReady
    /\ \E view \in {"fields", "id_fields", "title_fields"}, supply \in Supplies :
        \E r \in {CASE view = "fields" -> fields(Self, supply)
                   [] view = "id_fields" -> id_fields(Self, supply)
                   [] OTHER -> title_fields(Self, supply)} :
            /\ call' = [op |-> view, cold |-> ~has_id_fields, answers |-> Used(supply, r.supply)]
            /\ events' = r.events
            /\ result' = [kind |-> IF r.raised THEN r.error ELSE "return", dict |-> r.value]
            /\ Store(r.self)
            /\ UNCHANGED <<client, threads>>

\* the caller calls get_field(k)
GetField ==
    /\ CallerReady
    /\ \E k \in Keys, supply \in Supplies :
        \E r \in {get_field(Self, k, supply)} :
            /\ call' = [op |-> "get_field", cold |-> ~has_id_fields, k |-> k,
                        answers |-> Used(supply, r.supply)]
            /\ events' = r.events
            /\ result' = [kind |-> IF r.raised THEN r.error ELSE "return", fd |-> r.value]
            /\ Store(r.self)
            /\ UNCHANGED <<client, threads>>

\* the caller calls format_task_data(data)
FormatTaskData ==
    /\ CallerReady
    /\ \E data \in Payloads, supply \in Supplies :
        \E r \in {format_task_data(Self, data, supply)} :
            /\ call' = [op |-> "format_task_data", cold |-> ~has_id_fields, data |-> data]
            /\ events' = r.events
            /\ result' = r.outcome
            /\ Store(r.self)
            /\ UNCHANGED <<client, threads>>

NextFields == SetIgnoreMissingFields \/ ReadView \/ GetField \/ FormatTaskData \/ Return

SpecFields == InitFields /\ [][NextFields]_vars

(***************************************************************************)
(* The cache shared by concurrent callers.  Each caller reads the id_fields *)
(* property; the steps of the property interleave: the hasattr test, the   *)
(* call of _get_fields, the assignment to self._id_fields and the read of  *)
(* self._id_fields that the property returns.  A caller's record keeps     *)
(* what its last _get_fields was delivered and returned, and the how-many- *)
(* eth assignment to the cache its assignment was (0: none yet).           *)
(***************************************************************************)
Callers == 2

Thread(pc, delivered, fetched, wrote_at, value) ==
    [pc |-> pc, delivered |-> delivered, fetched |-> fetched, wrote_at |-> wrote_at,
     value |-> value]

InitConcurrent ==
    /\ ZendeskInit("acme", <<>>, DefaultEndpoint, TRUE, DefaultTimeout)
    /\ Idle
    /\ threads = [t \in 1..Callers |-> Thread("idle", <<>>, <<>>, 0, <<>>)]

AssignedFirstWins(has, old, new) == IF has THEN old ELSE new

\* self._id_fields = <the value _get_fields returned>
Assigned(has, old, new) == new

\* if not hasattr(self, '_id_fields'): ...
T_Check(t) ==
    /\ threads[t].pc = "idle"
    /\ threads' = [threads EXCEPT ![t].pc =
                     IF NeedsFetch(Self) THEN "get_fields" ELSE "return"]
    /\ UNCHANGED <<client, cache, call, events, result>>

\* ... self._get_fields()
T_GetFields(t) ==
    /\ threads[t].pc = "get_fields"
    /\ \E answers \in FieldAnswers :
         \E g \in {_get_fields(answers)} :
            threads' = [threads EXCEPT ![t] =
                IF g.error # "" THEN [@ EXCEPT !.pc = "raised"]
                ELSE [@ EXCEPT !.pc = "assign",
                               !.delivered = Last(answers).content.value.ticket_fields,
                               !.fetched = g.fields]]
    /\ UNCHANGED <<client, cache, call, events, result>>

\* self._id_fields = ...
T_Assign(t) ==
    /\ threads[t].pc = "assign"
    /\ _id_fields' = Assigned(has_id_fields, _id_fields, threads[t].fetched)
    /\ has_id_fields' = TRUE
    /\ populations' = populations + 1
    /\ threads' = [threads EXCEPT ![t].pc = "return", ![t].wrote_at = populations + 1]
    /\ UNCHANGED <<client, call, events, result>>

\* return self._id_fields
T_Return(t) ==
    /\ threads[t].pc = "return"
    /\ threads' = [threads EXCEPT ![t].pc = "done", ![t].value = _id_fields]
    /\ UNCHANGED <<client, cache, call, events, result>>

\* the caller, its access over (returned or raised), makes another one
T_Again(t) ==
    /\ threads[t].pc \in {"done", "raised"}
    /\ threads' = [threads EXCEPT ![t].pc = "idle"]
    /\ UNCHANGED <<client, cache, call, events, result>>

NextConcurrent ==
    \E t \in 1..Callers :
        T_Check(t) \/ T_GetFields(t) \/ T_Assign(t) \/ T_Return(t) \/ T_Again(t)

SpecConcurrent == InitConcurrent /\ [][NextConcurrent]_vars

(***************************************************************************)
(* Properties of the transport and of get_users.                           *)
(***************************************************************************)
\* the number a string of decimal digits denotes
SecondsOf(digits) ==
    LET n == Len(digits)
        Weight[i \in 0..n] == IF i = 0 THEN 0 ELSE 10 * Weight[i - 1] + digits[i]
    IN  Weight[n]

\* the url a call's requests go to
ResolvedUrl(url) == IF Head(url) \in {"https://", "http://"} THEN url ELSE endpoint \o url

\* the call answered by n 429 responses and a final one made n+1 identical
\* sends, with the i-th sleep, as long as the i-th Retry-After says, between
\* the i-th and the (i+1)-th send
RetriedIdentically(method, url, kwargs, resps) ==
    LET n == Len(resps) - 1
        req == [method |-> method, url |-> ResolvedUrl(url), kwargs |-> kwargs,
                timeout |-> timeout]
    IN  /\ Len(events) = 2 * n + 1
        /\ \A i \in 1..(n + 1) : events[2 * i - 1].kind = "send" /\ events[2 * i - 1].req = req
        /\ \A i \in 1..n : /\ events[2 * i].kind = "sleep"
                            /\ events[2 * i].secs = SecondsOf(resps[i].retry_after)

C2_AutoRetryFlagHonoured ==
    (call.op = "request" /\ ~auto_retry_arg /\ call.resps[1].status_code = 429) =>
        /\ Len(events) = 1
        /\ events[1].kind = "send"
        /\ result.kind = "ZendeskError"
        /\ result.status_code = 429

\* C3: a request whose final response has a status >= 400 fails with the error
\* carrying the method, the url, the status, the body and the call's
\* arguments; one whose final status is < 400 returns the response with its
\* json field the parsed body, or None when the body is not JSON.
C3_ErrorPolicy ==
    call.op = "request" =>
        LET final == Last(call.resps)
        IN  /\ final.status_code >= 400 =>
                  /\ result.kind = "ZendeskError"
                  /\ result.method = call.method
                  /\ result.url = ResolvedUrl(call.url)
                  /\ result.status_code = final.status_code
                  /\ result.text = final.content
                  /\ result.kwargs = call.kwargs
            /\ final.status_code < 400 =>
                  /\ result.kind = "return"
                  /\ result.status_code = final.status_code
                  /\ result.text = final.content
                  /\ final.content.valid => ~result.json_none /\ result.json = final.content.value
                  /\ ~final.content.valid => result.json_none

C3_Witness ==
    /\ call.op = "request"
    /\ Len(call.resps) = 2
    /\ Last(call.resps).status_code = 400
    /\ result.kind = "ZendeskError"
    /\ result.status_code = 400
    /\ result.url = endpoint \o <<"/search.json">>

\* the final response is a success whose JSON body has a `users` key
UsersDelivered(resps) ==
    LET final == Last(resps)
    IN  final.status_code < 400 /\ final.content.valid /\ "users" \in final.content.value.keys

\* the call made one get of /users.json with the given params
OneUsersGet(params) ==
    /\ RetriedIdentically("GET", <<"/users.json">>, <<[k |-> "params", v |-> params]>>, call.resps)
    /\ UsersDelivered(call.resps) =>
          result.kind = "return" /\ result.users = Last(call.resps).content.value.users

FailedUnsent == result.kind = "AssertionError" /\ events = <<>>

\* C7 as stated: get_users fails with InvalidArgument, sending nothing, when
\* given neither email nor external_id and also when given both; given exactly
\* one it issues one GET to /users.json and returns the `users` array.
C7_ExactlyOneRequired ==
    call.op = "get_users" =>
        LET e == Truthy(call.email)
            x == Truthy(call.external_id)
        IN  /\ (e = x) => FailedUnsent
            /\ (e /\ ~x) => OneUsersGet(<<[k |-> "query", v |-> call.email]>>)
            /\ (x /\ ~e) => OneUsersGet(<<[k |-> "external_id", v |-> call.external_id]>>)

\* C7 amended: get_users fails with InvalidArgument, sending nothing, exactly
\* when neither email nor external_id is given (non-empty); given at least one,
\* both included, it makes one get of /users.json, querying by the email when
\* there is one and by the external_id otherwise, and returns the `users` array
\* of a successful response that has one.
C7_AtLeastOneRequired ==
    call.op = "get_users" =>
        LET e == Truthy(call.email)
            x == Truthy(call.external_id)
        IN  /\ (~e /\ ~x) => FailedUnsent
            /\ e => OneUsersGet(<<[k |-> "query", v |-> call.email]>>)
            /\ (x /\ ~e) => OneUsersGet(<<[k |-> "external_id", v |-> call.external_id]>>)
            /\ (e \/ x) => result.kind # "AssertionError"

C7_Witness ==
    /\ call.op = "get_users"
    /\ Truthy(call.email)
    /\ Truthy(call.external_id)
    /\ Len(events) = 3
    /\ result.kind = "return"
    /\ result.users = <<"u1", "u2">>

(***************************************************************************)
(* Properties of the field registry and of the formatter.                  *)
(***************************************************************************)
CachedEntries == DictValues(_id_fields)

\* the key of an entry in the alias view: its configured alias, else its title
AliasOf(e) ==
    IF \E i \in 1..Len(field_mapping) : field_mapping[i].k = e.id
    THEN (CHOOSE m \in Range(field_mapping) : m.k = e.id).v
    ELSE e.title

\* the last of the cached entries whose index is in idx, None when idx is empty
LastAt(idx) ==
    IF idx = {} THEN NoneFd
    ELSE CachedEntries[CHOOSE i \in idx : \A j \in idx : j <= i]

\* the entry each view holds under a key
InAliasView(k) == LastAt({i \in 1..Len(CachedEntries) : AliasOf(CachedEntries[i]) = k})

InIdView(k) == LastAt({i \in 1..Len(CachedEntries) : CachedEntries[i].id = k})

InTitleView(k) == LastAt({i \in 1..Len(CachedEntries) : CachedEntries[i].title = k})

\* the first of the alias, id and title views that has the key gives the entry
Resolved(k) ==
    IF InAliasView(k) # NoneFd THEN InAliasView(k)
    ELSE IF InIdView(k) # NoneFd THEN InIdView(k)
    ELSE InTitleView(k)

IsSend(e) == e.kind = "send"

\* the events are those of exactly one get of the field-listing endpoint
OneListingGet(evs) ==
    /\ evs # <<>>
    /\ Len(evs) % 2 = 1
    /\ \A i \in 1..Len(evs) :
          IF i % 2 = 1
          THEN /\ IsSend(evs[i])
               /\ evs[i].req.method = "GET"
               /\ evs[i].req.url = endpoint \o <<"/ticket_fields.json">>
          ELSE evs[i].kind = "sleep"

\* the operation called reads a view of the cache
ReadsCache(c) ==
    \/ c.op \in {"fields", "id_fields", "title_fields", "get_field"}
    \/ c.op = "format_task_data" /\ "fields" \in c.data.present /\ c.data.fields # <<>>

C4_Step ==
    /\ populations' <= 1
    /\ has_id_fields => /\ has_id_fields'
                        /\ _id_fields' = _id_fields
                        /\ populations' = populations
                        /\ events' = <<>>
    /\ (~has_id_fields /\ CallerReady /\ ReadsCache(call')) => OneListingGet(events')
    /\ (~has_id_fields /\ has_id_fields') =>
          /\ populations' = 1
          /\ ReadsCache(call')
          /\ \E l \in Listings :
                /\ Last(events').kind = "send"
                /\ Range(DictValues(_id_fields')) \subseteq Range(l)
                /\ \A i \in 1..Len(l) : \E e \in Range(DictValues(_id_fields')) : e.id = l[i].id

\* C4: with a single caller the field cache is populated at most once: the
\* first access to a view (directly, through get_field or through
\* format_task_data) makes one get of the field-listing endpoint, and once the
\* cache is populated no later access sends anything or changes the cache.
C4_PopulatedOnce == [][C4_Step]_vars

C4_Witness ==
    /\ call.op = "get_field"
    /\ ~call.cold
    /\ populations = 1
    /\ events = <<>>
    /\ result.kind = "return"
    /\ result.fd # NoneFd

\* C8: get_field(k) returns the entry of the first of the alias view, the id
\* view and the title view that has the key, whatever a later view maps the
\* key to, and None, without an error, when no view has it.
C8_LookupOrder ==
    (call.op = "get_field" /\ has_id_fields) =>
        /\ result.kind = "return"
        /\ InAliasView(call.k) # NoneFd => result.fd = InAliasView(call.k)
        /\ (InAliasView(call.k) = NoneFd /\ InIdView(call.k) # NoneFd) =>
              result.fd = InIdView(call.k)
        /\ (InAliasView(call.k) = NoneFd /\ InIdView(call.k) = NoneFd) =>
              result.fd = InTitleView(call.k)

C8_Witness ==
    /\ call.op = "get_field"
    /\ InAliasView(call.k) # NoneFd
    /\ InIdView(call.k) # NoneFd
    /\ InIdView(call.k) # InAliasView(call.k)
    /\ result.kind = "return"
    /\ result.fd = InAliasView(call.k)

\* a call of format_task_data with a `fields` mapping that got its field
\* metadata (from the cache or from a successful fetch)
Formatting ==
    /\ call.op = "format_task_data"
    /\ "fields" \in call.data.present
    /\ has_id_fields
    /\ result.kind \in {"return", "AssertionError"}

\* the option list a field's metadata declares
Declares(fd) == fd.present \cap {"custom_field_options", "options"} # {}

Declared(fd) ==
    IF "custom_field_options" \in fd.present THEN fd.custom_field_options ELSE fd.options

InvalidFieldValue == result.kind = "AssertionError" /\ result.message = ""

UnknownField(k) ==
    result.kind = "AssertionError" /\ result.message = "No match for field" /\ result.key = k

\* C5: for a field whose metadata declares an option list, as delivered by
\* the field-listing endpoint, format_task_data fails with InvalidFieldValue
\* when the value supplied for it is not in the list and succeeds, appending
\* the {id, value} pair, when it is.
C5_OptionValidation ==
    (Formatting /\ Len(call.data.fields) = 1) =>
        LET k == call.data.fields[1].k
            v == call.data.fields[1].v
            fd == Resolved(k)
        IN  (fd # NoneFd /\ Declares(fd)) =>
                IF v \in Declared(fd)
                THEN /\ result.kind = "return"
                     /\ result.data.custom_fields = <<[id |-> fd.id, value |-> v]>>
                ELSE InvalidFieldValue

Unresolvable(p) == Resolved(p.k) = NoneFd

\* the subsequence of s at the indices in idx
RECURSIVE Pick(_, _)
Pick(s, idx) ==
    IF s = <<>> THEN <<>>
    ELSE Pick(SubSeq(s, 1, Len(s) - 1), idx)
         \o (IF Len(s) \in idx THEN <<s[Len(s)]>> ELSE <<>>)

\* the {id, value} pair of an entry of the `fields` mapping
PairOf(p) == [id |-> Resolved(p.k).id, value |-> p.v]

PairsOf(ps) == [i \in 1..Len(ps) |-> PairOf(ps[i])]

\* C6: for a key of the `fields` mapping that get_field cannot resolve: with
\* "ignore missing fields" on, format_task_data raises no error for it, adds
\* no custom_fields entry for it and goes on with the other keys; with it off,
\* format_task_data fails, returning no payload, with UnknownField reporting
\* the key (the first such key, unless an earlier entry failed already).
C6_MissingFields ==
    Formatting =>
        LET flds == call.data.fields
            missing == {i \in 1..Len(flds) : Unresolvable(flds[i])}
            first == CHOOSE i \in missing : \A j \in missing : i <= j
        IN  IF ignore_missing_fields
            THEN /\ result.message # "No match for field"
                 /\ result.kind = "return" =>
                       result.data.custom_fields
                         = PairsOf(Pick(flds, (1..Len(flds)) \ missing))
            ELSE missing # {} =>
                 /\ result.kind = "AssertionError"
                 /\ result.message = "No match for field" => result.key = flds[first].k
                 /\ (\A j \in 1..(first - 1) : ~Declares(Resolved(flds[j].k))) =>
                       UnknownField(flds[first].k)

C6_Witness ==
    /\ Formatting
    /\ ignore_missing_fields
    /\ Len(call.data.fields) = 2
    /\ Unresolvable(call.data.fields[1])
    /\ ~Unresolvable(call.data.fields[2])
    /\ result.kind = "return"
    /\ Len(result.data.custom_fields) = 1

\* every key of the `fields` mapping resolves and every value is allowed by
\* the option lists of its field
AllResolvableAndAllowed ==
    \A i \in 1..Len(call.data.fields) :
        LET fd == Resolved(call.data.fields[i].k)
            v == call.data.fields[i].v
        IN  /\ fd # NoneFd
            /\ "options" \in fd.present => v \in fd.options
            /\ "custom_field_options" \in fd.present => v \in fd.custom_field_options

\* the payload returned has no `fields` key and has one {id, value} entry per
\* input entry in `custom_fields`, in the order of the input
OnePairPerEntry ==
    /\ result.kind = "return"
    /\ result.data.present = (call.data.present \ {"fields"}) \cup {"custom_fields"}
    /\ result.data.custom_fields = PairsOf(call.data.fields)
    /\ result.data.subject = call.data.subject

\* C9 as stated: for a payload whose `fields` keys all resolve (values
\* allowed), the payload returned has no `fields` key, has one {id, value}
\* entry per input entry in `custom_fields`, in input order, and every other
\* key of the payload is unchanged.
C9_OtherKeysUnchanged ==
    (Formatting /\ AllResolvableAndAllowed) =>
        /\ OnePairPerEntry
        /\ result.data.comment = call.data.comment

\* C9 amended: ... and every other key of the payload is unchanged, except
\* that a plain-text `comment` is replaced by {body: <text>, public: false}.
C9_CommentNormalised ==
    (Formatting /\ AllResolvableAndAllowed) =>
        /\ OnePairPerEntry
        /\ "comment" \in call.data.present =>
              result.data.comment =
                IF call.data.comment.is_dict THEN call.data.comment
                ELSE [is_dict |-> TRUE, text |-> "", body |-> call.data.comment.text,
                      public |-> FALSE]

C9_Witness ==
    /\ Formatting
    /\ AllResolvableAndAllowed
    /\ Len(call.data.fields) = 2
    /\ "comment" \in call.data.present
    /\ ~call.data.comment.is_dict
    /\ result.kind = "return"
    /\ Len(result.data.custom_fields) = 2
    /\ result.data.custom_fields[1].id # result.data.custom_fields[2].id
    /\ result.data.comment.is_dict

(***************************************************************************)
(* Properties of the cache under concurrent callers.                       *)
(***************************************************************************)
\* the cache holds the whole of a listing: the last element of each id
WholeOf(listing, dict) ==
    /\ {dict[i].k : i \in 1..Len(dict)} = {listing[i].id : i \in 1..Len(listing)}
    /\ \A i \in 1..Len(dict) :
          \E j \in 1..Len(listing) :
             /\ dict[i] = [k |-> listing[j].id, v |-> listing[j]]
             /\ \A m \in (j + 1)..Len(listing) : listing[m].id # listing[j].id

\* C10: with concurrent callers and the cache unset, population is not
\* synchronized: several first accesses may each make their own get and each
\* assign the cache, and whatever the interleaving the cache, once written,
\* holds the complete result of exactly one fetch, that of the last writer.
C10_LastWriterWins ==
    /\ populations <= Callers
    /\ has_id_fields = (populations > 0)
    /\ has_id_fields =>
          \E t \in 1..Callers :
             /\ threads[t].wrote_at = populations
             /\ \A u \in 1..Callers : threads[u].wrote_at = populations => u = t
             /\ _id_fields = threads[t].fetched
             /\ WholeOf(threads[t].delivered, _id_fields)

\* two callers each fetched and each assigned; the first writer's result is
\* gone from the cache
C10_Witness ==
    \E t, u \in 1..Callers :
        /\ threads[t].wrote_at = 1
        /\ threads[u].wrote_at = 2
        /\ populations = 2
        /\ threads[t].fetched # threads[u].fetched
        /\ _id_fields = threads[u].fetched
        /\ threads[t].pc = "done"
        /\ threads[u].pc = "done"
        /\ threads[t].value = threads[t].fetched

====
